---- MODULE Spec2Model ----
(***************************************************************************)
(* docker-cron: a crontab loader (src/src/crontab.rs) and a per-job        *)
(* scheduling loop driven from a single-threaded runtime (src/src/main.rs).*)
(*                                                                         *)
(* Spec      the process: main, async_main, one schedule_job task per job  *)
(* FairSpec  Spec with the coordinator's signal.recv() weakly fair         *)
(* LineSpec  find_whitespace_runs and CronJob::from_str on one line        *)
(* FileSpec  read_crontab on one file                                      *)
(***************************************************************************)
EXTENDS Integers, Sequences, FiniteSets, TLC

(***************************************************************************)
(* Bounds.                                                                 *)
(* Wall-clock time is counted in ticks; TicksPerMilli ticks make one       *)
(* millisecond, so that Utc::now() is finer than the millisecond the sleep *)
(* duration is converted to.  A Schedule is modelled by its period in      *)
(* whole milliseconds (cron occurrences are whole seconds, hence whole     *)
(* milliseconds); period 0 is a schedule with no occurrence at all         *)
(* (e.g. "0 0 0 30 2 *").                                                  *)
(***************************************************************************)
TicksPerMilli == 2
MaxPeriod == 2
MaxJobs == 2
MaxClock == 5
\* LineSpec: the longest exhaustively enumerated line, and the most separated
\* tokens that follow the first token of a structured line
MaxLen == 4
MaxRuns == 7
\* FileSpec: the most physical lines of a file
MaxLines == 3

\* Option<T>: None is the empty sequence, Some(x) a sequence of one element
None == <<>>
Some(x) == <<x>>
unwrap(opt) == opt[1]

VARIABLES
    clock,      \* wall-clock time, in ticks
    mainPc,     \* position of main/async_main: "main", "ping", "recv", "exited"
    exit,       \* process exit status: "none", "success", "failure", "killed"
    jobs,       \* Vec<CronJob> returned by load_crontab
    signal,     \* SIGTERM: handler installed?, signal pending?
    join_set,   \* per spawned task: "running", "panicked", "aborted"
    jobPc,      \* per task, the await it is suspended at
    next,       \* per task, `next`: the fire instant being waited for
    wake,       \* per task, Some(instant its pending sleep() elapses) or None
    log,        \* the record the last step wrote to the log (task 0 is main), if any
    reply,      \* None, or Some(the Docker API result the last step received)
    \* LineSpec
    input,      \* the line given to find_whitespace_runs and from_str
    splitter,   \* RunFinder: the characters its iterator has consumed
    runs,       \* the (start, end) pairs next() has yielded so far
    exhausted,  \* next() has returned None
    parsed,     \* None, or Some(outcome of from_str(line))
    \* FileSpec
    file,       \* the text given to read_crontab
    line_idx,   \* read_crontab: index of the line the loop is at
    cron_jobs,  \* read_crontab: the `jobs` vector being built
    crontab     \* None, or Some(what read_crontab returned)

schedVars == <<clock, mainPc, exit, jobs, signal, join_set, jobPc, next, wake, log, reply>>
lineVars == <<input, splitter, runs, exhausted, parsed>>
fileVars == <<file, line_idx, cron_jobs, crontab>>
vars == <<schedVars, lineVars, fileVars>>

procVars == <<mainPc, exit, jobs, signal>>
taskVars == <<join_set, jobPc, next, wake>>

\* a log record; a step that logs nothing leaves no record
Record(j, text) == [task |-> j, message |-> text, field |-> None]
\* a record with one field besides its message, as in warn!(status_code, "..")
RecordWith(j, text, name, value) ==
    [task |-> j, message |-> text, field |-> Some([name |-> name, value |-> value])]
NoReply == reply' = None
Silent == log' = Record(0, "") /\ NoReply

(***************************************************************************)
(* Text (src/src/crontab.rs).  A &str is a sequence of characters; offsets *)
(* into it count UTF-8 bytes, as char_indices() and slicing do.            *)
(***************************************************************************)
\* U+3000 IDEOGRAPHIC SPACE: White_Space, three bytes in UTF-8
U3000 == "W"

is_whitespace(c) == c \in {" ", "\t", "\n", "\r", U3000}

len_utf8(c) == IF c = U3000 THEN 3 ELSE 1

\* str.len(), in bytes
RECURSIVE len(_)
len(str) == IF str = <<>> THEN 0 ELSE len_utf8(Head(str)) + len(Tail(str))

\* the byte offset char_indices() pairs with the i-th character (1-based)
offset(str, i) == len(SubSeq(str, 1, i - 1))

is_char_boundary(str, idx) ==
    \/ idx = 0
    \/ idx = len(str)
    \/ \E i \in 1..Len(str) : offset(str, i) = idx

\* &str[from..to] panics when an end is out of range or inside a character
slice_panics(str, from, to) ==
    ~ /\ from <= to /\ to <= len(str)
      /\ is_char_boundary(str, from) /\ is_char_boundary(str, to)

\* &str[from..to]: the characters whose offsets lie in from..to
RECURSIVE slice_from(_, _, _, _)
slice_from(str, i, from, to) ==
    IF i > Len(str) THEN <<>>
    ELSE IF from <= offset(str, i) /\ offset(str, i) < to
         THEN <<str[i]>> \o slice_from(str, i + 1, from, to)
         ELSE slice_from(str, i + 1, from, to)

slice(str, from, to) == slice_from(str, 1, from, to)

starts_with(str, c) == str # <<>> /\ Head(str) = c

\* str.trim()
RECURSIVE trim_start(_)
trim_start(str) ==
    IF str # <<>> /\ is_whitespace(Head(str)) THEN trim_start(Tail(str)) ELSE str

RECURSIVE trim_end(_)
trim_end(str) ==
    IF str # <<>> /\ is_whitespace(str[Len(str)])
    THEN trim_end(SubSeq(str, 1, Len(str) - 1)) ELSE str

trim_end_only(str) == trim_end(str)

trim_start_only(str) == trim_start(str)

trim(str) == trim_end(trim_start(str))

\* str.split("\n"), collected
RECURSIVE split_acc(_, _, _)
split_acc(str, cur, acc) ==
    IF str = <<>> THEN Append(acc, cur)
    ELSE IF Head(str) = "\n" THEN split_acc(Tail(str), <<>>, Append(acc, cur))
    ELSE split_acc(Tail(str), Append(cur, Head(str)), acc)

split(str) == split_acc(str, <<>>, <<>>)

(***************************************************************************)
(* RunFinder (crontab.rs 9-49).  `iter` is the number of characters the    *)
(* CharIndices iterator has yielded so far.                                *)
(***************************************************************************)
\* the second loop of next(), lines 29-39
RECURSIVE RunFinder_end(_, _, _, _)
RunFinder_end(str, iter, start, last_idx) ==
    IF iter = Len(str)
    THEN [item |-> Some(<<start, last_idx + 1>>), iter |-> iter]
    ELSE LET pos == offset(str, iter + 1)
             c == str[iter + 1]
         IN  IF ~is_whitespace(c)
             THEN [item |-> Some(<<start, pos>>), iter |-> iter + 1]
             ELSE RunFinder_end(str, iter + 1, start, pos)

\* the first loop of next(), lines 19-27
RECURSIVE RunFinder_start(_, _)
RunFinder_start(str, iter) ==
    IF iter = Len(str)
    THEN [item |-> None, iter |-> iter]
    ELSE LET pos == offset(str, iter + 1)
             c == str[iter + 1]
         IN  IF is_whitespace(c)
             THEN RunFinder_end(str, iter + 1, pos, pos)
             ELSE RunFinder_start(str, iter + 1)

RunFinder_next(str, iter) == RunFinder_start(str, iter)

\* Iterator::nth(n) on the RunFinder
RECURSIVE nth(_, _, _)
nth(str, iter, n) ==
    LET r == RunFinder_next(str, iter)
    IN  IF r.item = None \/ n = 0 THEN r ELSE nth(str, r.iter, n - 1)

(***************************************************************************)
(* cron::Schedule::from_str, the external evaluator, reduced to what the   *)
(* model's texts can hold: an alias, or six or seven fields separated by   *)
(* blanks.  A Schedule prints as the text it was parsed from.              *)
(***************************************************************************)
Aliases == {<<"@", "d", "a", "i", "l", "y">>}
FieldTexts == {<<"*">>, <<"0">>, <<"2">>}

RECURSIVE fields_acc(_, _, _)
fields_acc(str, cur, acc) ==
    IF str = <<>> THEN (IF cur = <<>> THEN acc ELSE Append(acc, cur))
    ELSE IF Head(str) \in {" ", "\t"}
         THEN fields_acc(Tail(str), <<>>, IF cur = <<>> THEN acc ELSE Append(acc, cur))
         ELSE fields_acc(Tail(str), Append(cur, Head(str)), acc)

Schedule_from_str(spec) ==
    LET fields == fields_acc(spec, <<>>, <<>>)
    IN  IF \/ Len(fields) = 1 /\ fields[1] \in Aliases
           \/ Len(fields) \in {6, 7} /\ \A i \in 1..Len(fields) : fields[i] \in FieldTexts
        THEN [kind |-> "Ok", source |-> spec]
        ELSE [kind |-> "Err"]

(***************************************************************************)
(* CronJob::from_str (crontab.rs 65-89).  The outcome records the text     *)
(* handed to the evaluator (None when the evaluator was not called).       *)
(***************************************************************************)
InvalidFormatError(cause, spec) ==
    [kind |-> "Err", source |-> cause, evaluated |-> spec]

from_str_at(line, alias_run, cron_run) ==
    LET brk == IF starts_with(line, "@")
               THEN nth(line, 0, alias_run).item
               ELSE nth(line, 0, cron_run).item
    IN  IF brk = None THEN InvalidFormatError(None, None)
        ELSE LET spec_end == unwrap(brk)[1]
                 command_start == unwrap(brk)[2]
                 spec == slice(line, 0, spec_end)
                 command == slice(line, command_start, len(line))
             IN  IF \/ slice_panics(line, 0, spec_end)
                    \/ slice_panics(line, command_start, len(line))
                 THEN [kind |-> "panic"]
                 ELSE IF Schedule_from_str(spec).kind = "Err"
                      THEN InvalidFormatError(Some("cron::error::Error"), Some(spec))
                      ELSE [kind |-> "Ok",
                            schedule |-> Schedule_from_str(spec).source,
                            command |-> command,
                            evaluated |-> Some(spec)]

from_str_fifth_run(line) == from_str_at(line, 0, 4)

from_str(line) == from_str_at(line, 0, 5)

(***************************************************************************)
(* Schedule and CronJob                                                    *)
(***************************************************************************)
Schedule == 0..MaxPeriod

CronJob == [schedule : Schedule, command : {"c"}]

Crontabs == UNION {[1..n -> CronJob] : n \in 0..MaxJobs}

Tasks == 1..Len(jobs)

\* schedule.after(&now).next(): the earliest occurrence strictly after `now`
after_inclusive(schedule, now) ==
    IF schedule = 0 THEN None
    ELSE Some(((now + schedule * TicksPerMilli - 1) \div (schedule * TicksPerMilli))
              * (schedule * TicksPerMilli))

after(schedule, now) ==
    IF schedule = 0 THEN None
    ELSE Some((now \div (schedule * TicksPerMilli) + 1) * (schedule * TicksPerMilli))

\* TimeDelta::num_milliseconds(): whole milliseconds, truncated
num_milliseconds(dt) == dt \div TicksPerMilli

\* Duration::from_millis, in ticks
from_millis(ms) == ms * TicksPerMilli

(***************************************************************************)
(* schedule_job, lines 33-41: from the top of the loop to the sleep.       *)
(* An unwrap() on None panics the task; the panic is confined to the task. *)
(***************************************************************************)
Reschedule_from_next(j) ==
    LET now == clock
        upcoming == after(jobs[j].schedule, next[j])
        nxt == unwrap(upcoming)
    IN  IF upcoming = None \/ num_milliseconds(nxt - now) < 0
        THEN /\ join_set' = [join_set EXCEPT ![j] = "panicked"]
             /\ UNCHANGED <<jobPc, next, wake>>
        ELSE /\ next' = [next EXCEPT ![j] = nxt]
             /\ wake' = [wake EXCEPT ![j] = Some(now + from_millis(num_milliseconds(nxt - now)))]
             /\ jobPc' = [jobPc EXCEPT ![j] = "sleeping"]
             /\ UNCHANGED join_set

Reschedule(j) ==
    LET now == clock
        upcoming == after(jobs[j].schedule, now)
        nxt == unwrap(upcoming)
    IN  IF upcoming = None \/ num_milliseconds(nxt - now) < 0
        THEN /\ join_set' = [join_set EXCEPT ![j] = "panicked"]
             /\ UNCHANGED <<jobPc, next, wake>>
        ELSE /\ next' = [next EXCEPT ![j] = nxt]
             /\ wake' = [wake EXCEPT ![j] = Some(now + from_millis(num_milliseconds(nxt - now)))]
             /\ jobPc' = [jobPc EXCEPT ![j] = "sleeping"]
             /\ UNCHANGED join_set

Runnable(j) ==
    /\ mainPc = "recv"
    /\ j \in Tasks
    /\ join_set[j] = "running"

\* what a call to the Docker API returned to task j, and the fire instant
\* the call was made for
Reply(j, call, result) ==
    Some([task |-> j, call |-> call, result |-> result, fire |-> next[j]])

\* first poll of a spawned task: line 30, then lines 33-41
FirstPoll_abort_on_panic(j) ==
    /\ Runnable(j)
    /\ jobPc[j] = "spawned"
    /\ IF after(jobs[j].schedule, clock) = None
       THEN /\ mainPc' = "exited"
            /\ exit' = "failure"
            /\ join_set' = [k \in Tasks |-> "aborted"]
            /\ UNCHANGED <<jobPc, next, wake, jobs, signal>>
       ELSE /\ Reschedule(j)
            /\ UNCHANGED procVars
    /\ Silent
    /\ UNCHANGED clock
    /\ UNCHANGED <<lineVars, fileVars>>

FirstPoll(j) ==
    /\ Runnable(j)
    /\ jobPc[j] = "spawned"
    /\ Reschedule(j)
    /\ Silent
    /\ UNCHANGED <<clock, procVars>>
    /\ UNCHANGED <<lineVars, fileVars>>

\* the sleep elapsed (line 41): issue the start call (lines 44-46)
Wakeup(j) ==
    /\ Runnable(j)
    /\ jobPc[j] = "sleeping"
    /\ clock >= unwrap(wake[j])
    /\ wake' = [wake EXCEPT ![j] = None]
    /\ jobPc' = [jobPc EXCEPT ![j] = "starting"]
    /\ Silent
    /\ UNCHANGED <<clock, procVars, join_set, next>>
    /\ UNCHANGED <<lineVars, fileVars>>

\* start_container returned Err: lines 48-52, then lines 33-41
StartFailed_break(j) ==
    /\ Runnable(j)
    /\ jobPc[j] = "starting"
    /\ log' = RecordWith(j, "Failed to start container", "error", "Err")
    /\ reply' = Reply(j, "start", [kind |-> "Err"])
    /\ join_set' = [join_set EXCEPT ![j] = "finished"]
    /\ UNCHANGED <<clock, procVars, jobPc, next, wake>>
    /\ UNCHANGED <<lineVars, fileVars>>

StartFailed(j) ==
    /\ Runnable(j)
    /\ jobPc[j] = "starting"
    /\ log' = RecordWith(j, "Failed to start container", "error", "Err")
    /\ reply' = Reply(j, "start", [kind |-> "Err"])
    /\ Reschedule(j)
    /\ UNCHANGED <<clock, procVars>>
    /\ UNCHANGED <<lineVars, fileVars>>

\* start_container returned Ok: issue the wait call (lines 54-57)
StartOk_detached(j) ==
    /\ Runnable(j)
    /\ jobPc[j] = "starting"
    /\ log' = Record(0, "")
    /\ reply' = Reply(j, "start", [kind |-> "Ok"])
    /\ Reschedule(j)
    /\ UNCHANGED <<clock, procVars>>
    /\ UNCHANGED <<lineVars, fileVars>>

StartOk(j) ==
    /\ Runnable(j)
    /\ jobPc[j] = "starting"
    /\ jobPc' = [jobPc EXCEPT ![j] = "awaiting"]
    /\ log' = Record(0, "")
    /\ reply' = Reply(j, "start", [kind |-> "Ok"])
    /\ UNCHANGED <<clock, procVars, join_set, next, wake>>
    /\ UNCHANGED <<lineVars, fileVars>>

\* the result of wait_container(..).next().await
WaitResult ==
    {[kind |-> "None"], [kind |-> "Ok"], [kind |-> "Other"]}
    \cup [kind : {"DockerContainerWaitError"}, error : {"", "msg"}, code : {1}]

\* lines 61-79: the message of the record written for `result`
Classify_by_code(result) ==
    CASE result.kind = "None" -> "No response to poll request on Docker API"
      [] result.kind = "Ok" -> "Successful exit"
      [] result.kind = "DockerContainerWaitError" ->
            IF result.code # 0 THEN "Job did not succeed"
            ELSE "Container wait request returned error message"
      [] OTHER -> "Error waiting for container completion"

Classify(result) ==
    CASE result.kind = "None" -> "No response to poll request on Docker API"
      [] result.kind = "Ok" -> "Successful exit"
      [] result.kind = "DockerContainerWaitError" ->
            IF result.error = "" THEN "Job did not succeed"
            ELSE "Container wait request returned error message"
      [] OTHER -> "Error waiting for container completion"

\* lines 61-79: the record written for `result`, with the field it carries
Report(j, result) ==
    LET text == Classify(result)
    IN  CASE text = "Job did not succeed" ->
                RecordWith(j, text, "status_code", result.code)
          [] text = "Container wait request returned error message" ->
                RecordWith(j, text, "error_msg", result.error)
          [] text = "Error waiting for container completion" ->
                RecordWith(j, text, "error", result.kind)
          [] OTHER -> Record(j, text)

\* wait_container yielded `result`: lines 61-79, then the loop ends
WaitReturned_stop(j, result) ==
    /\ Runnable(j)
    /\ jobPc[j] = "awaiting"
    /\ log' = Report(j, result)
    /\ reply' = Reply(j, "wait", result)
    /\ IF result.kind = "None"
       THEN /\ join_set' = [join_set EXCEPT ![j] = "finished"]
            /\ UNCHANGED <<jobPc, next, wake>>
       ELSE Reschedule(j)
    /\ UNCHANGED <<clock, procVars>>
    /\ UNCHANGED <<lineVars, fileVars>>

\* wait_container yielded `result`: lines 61-79, then lines 33-41
WaitReturned(j, result) ==
    /\ Runnable(j)
    /\ jobPc[j] = "awaiting"
    /\ log' = Report(j, result)
    /\ reply' = Reply(j, "wait", result)
    /\ Reschedule(j)
    /\ UNCHANGED <<clock, procVars>>
    /\ UNCHANGED <<lineVars, fileVars>>

(***************************************************************************)
(* main and async_main                                                     *)
(***************************************************************************)
StartupFailures == {"EnvFilter", "NoArgument", "IoError", "InvalidFormat", "Runtime", "Connect"}

\* main lines 112-131 or async_main line 86 fail: main returns the error (or
\* panics on the missing argument), which is written out, and the process ends
MainFailed(why) ==
    /\ mainPc = "main"
    /\ mainPc' = "exited"
    /\ exit' = "failure"
    /\ log' = Record(0, why)
    /\ NoReply
    /\ UNCHANGED <<clock, jobs, signal, taskVars>>
    /\ UNCHANGED <<lineVars, fileVars>>

\* load_crontab returned Ok(loaded); the runtime is built; ping() is awaited
MainLoaded(loaded) ==
    /\ mainPc = "main"
    /\ jobs' = loaded
    /\ mainPc' = "ping"
    /\ log' = Record(0, "Connecting to Docker")
    /\ NoReply
    /\ UNCHANGED <<clock, exit, signal, taskVars>>
    /\ UNCHANGED <<lineVars, fileVars>>

\* docker.ping() returned Err (line 89)
PingFailed_after_spawn ==
    /\ mainPc = "recv"
    /\ mainPc' = "exited"
    /\ exit' = "failure"
    /\ log' = Record(0, "Ping")
    /\ NoReply
    /\ UNCHANGED <<clock, jobs, signal, taskVars>>
    /\ UNCHANGED <<lineVars, fileVars>>

PingFailed ==
    /\ mainPc = "ping"
    /\ mainPc' = "exited"
    /\ exit' = "failure"
    /\ log' = Record(0, "Ping")
    /\ NoReply
    /\ UNCHANGED <<clock, jobs, signal, taskVars>>
    /\ UNCHANGED <<lineVars, fileVars>>

\* docker.ping() returned Ok, signal() failed (line 94)
SignalFailed ==
    /\ mainPc = "ping"
    /\ mainPc' = "exited"
    /\ exit' = "failure"
    /\ log' = Record(0, "Signal")
    /\ NoReply
    /\ UNCHANGED <<clock, jobs, signal, taskVars>>
    /\ UNCHANGED <<lineVars, fileVars>>

\* docker.ping() returned Ok: lines 90-103, up to signal.recv().await
SpawnAll ==
    /\ mainPc = "ping"
    /\ signal' = [signal EXCEPT !.installed = TRUE]
    /\ join_set' = [j \in Tasks |-> "running"]
    /\ jobPc' = [j \in Tasks |-> "spawned"]
    /\ next' = [j \in Tasks |-> 0]
    /\ wake' = [j \in Tasks |-> None]
    /\ log' = Record(0, "Docker connection OK, starting scheduler")
    /\ NoReply
    /\ mainPc' = "recv"
    /\ UNCHANGED <<clock, exit, jobs>>
    /\ UNCHANGED <<lineVars, fileVars>>

\* signal.recv() returned: lines 104-109; dropping join_set aborts every task
RecvSignalDrain ==
    /\ mainPc = "recv"
    /\ signal.pending
    /\ \A j \in Tasks : join_set[j] = "running" => jobPc[j] \in {"spawned", "sleeping"}
    /\ join_set' = [j \in Tasks |-> IF join_set[j] = "running" THEN "aborted" ELSE join_set[j]]
    /\ mainPc' = "exited"
    /\ exit' = "success"
    /\ log' = Record(0, "Stopping due to SIGTERM")
    /\ NoReply
    /\ UNCHANGED <<clock, jobs, signal, jobPc, next, wake>>
    /\ UNCHANGED <<lineVars, fileVars>>

\* the coordinator reports the signal but is suspended once more before it returns
RecvSignal_yield ==
    /\ mainPc = "recv"
    /\ signal.pending
    /\ exit = "none"
    /\ exit' = "success"
    /\ log' = Record(0, "Stopping due to SIGTERM")
    /\ NoReply
    /\ UNCHANGED <<clock, mainPc, jobs, signal, taskVars>>
    /\ UNCHANGED <<lineVars, fileVars>>

RecvSignal ==
    /\ mainPc = "recv"
    /\ signal.pending
    /\ join_set' = [j \in Tasks |-> IF join_set[j] = "running" THEN "aborted" ELSE join_set[j]]
    /\ mainPc' = "exited"
    /\ exit' = "success"
    /\ log' = Record(0, "Stopping due to SIGTERM")
    /\ NoReply
    /\ UNCHANGED <<clock, jobs, signal, jobPc, next, wake>>
    /\ UNCHANGED <<lineVars, fileVars>>

(***************************************************************************)
(* Environment: SIGTERM and the passage of time                            *)
(***************************************************************************)
\* SIGTERM is delivered; with no handler installed it terminates the process
Sigterm ==
    /\ mainPc # "exited"
    /\ ~signal.pending
    /\ IF signal.installed
       THEN /\ signal' = [signal EXCEPT !.pending = TRUE]
            /\ UNCHANGED <<mainPc, exit>>
       ELSE /\ mainPc' = "exited"
            /\ exit' = "killed"
            /\ UNCHANGED signal
    /\ Silent
    /\ UNCHANGED <<clock, jobs, taskVars>>
    /\ UNCHANGED <<lineVars, fileVars>>

Tick ==
    /\ mainPc # "exited"
    /\ clock < MaxClock
    /\ clock' = clock + 1
    /\ Silent
    /\ UNCHANGED <<procVars, taskVars>>
    /\ UNCHANGED <<lineVars, fileVars>>

SchedInit ==
    /\ clock = 0
    /\ mainPc = "main"
    /\ exit = "none"
    /\ jobs = <<>>
    /\ signal = [installed |-> FALSE, pending |-> FALSE]
    /\ join_set = <<>>
    /\ jobPc = <<>>
    /\ next = <<>>
    /\ wake = <<>>
    /\ log = Record(0, "")
    /\ reply = None

\* nothing is being scanned or parsed
LineIdle ==
    /\ input = <<>>
    /\ splitter = 0
    /\ runs = <<>>
    /\ exhausted = FALSE
    /\ parsed = None

\* nothing is being loaded
FileIdle ==
    /\ file = <<>>
    /\ line_idx = 0
    /\ cron_jobs = <<>>
    /\ crontab = None

Init == SchedInit /\ LineIdle /\ FileIdle

Next ==
    \/ \E why \in StartupFailures : MainFailed(why)
    \/ \E loaded \in Crontabs : MainLoaded(loaded)
    \/ PingFailed
    \/ SignalFailed
    \/ SpawnAll
    \/ RecvSignal
    \/ Sigterm
    \/ Tick
    \/ \E j \in 1..MaxJobs : FirstPoll(j)
    \/ \E j \in 1..MaxJobs : Wakeup(j)
    \/ \E j \in 1..MaxJobs : StartFailed(j)
    \/ \E j \in 1..MaxJobs : StartOk(j)
    \/ \E j \in 1..MaxJobs, result \in WaitResult : WaitReturned(j, result)

Spec == Init /\ [][Next]_vars

FairSpec == Spec /\ WF_vars(RecvSignal)

(***************************************************************************)
(* LineSpec: one line is scanned to the end with find_whitespace_runs      *)
(* (as test_whitespace_runs does) and then parsed with CronJob::from_str.  *)
(***************************************************************************)
RECURSIVE Strings(_, _)
Strings(alphabet, n) ==
    IF n = 0 THEN {<<>>}
    ELSE Strings(alphabet, n - 1)
            \cup {Append(str, c) : str \in Strings(alphabet, n - 1), c \in alphabet}

\* every line of at most MaxLen characters
ShortLines == Strings({" ", U3000, "a", "@"}, MaxLen)

Separators == {<<" ">>, <<"\t", U3000>>}

\* n times a separator and a field
RECURSIVE Separated(_)
Separated(n) ==
    IF n = 0 THEN {<<>>}
    ELSE {sep \o <<"*">> \o rest : sep \in Separators, rest \in Separated(n - 1)}

\* [leading blank] first token, up to MaxRuns separated fields, and an ending:
\* nothing, trailing whitespace, or a command with whitespace in it
JobLines ==
    {lead \o head \o rest \o ending :
        lead \in {<<>>, <<" ">>},
        head \in {<<"*">>, <<"@", "d", "a", "i", "l", "y">>},
        rest \in UNION {Separated(n) : n \in 0..MaxRuns},
        ending \in {<<>>, <<" ">>, <<U3000>>, <<" ", "f", " ", " ", "g">>}}

LineInit ==
    /\ input \in ShortLines \cup JobLines
    /\ splitter = 0
    /\ runs = <<>>
    /\ exhausted = FALSE
    /\ parsed = None

\* one call of next() on find_whitespace_runs(input) that yields a run
NextRun ==
    /\ ~exhausted
    /\ RunFinder_next(input, splitter).item # None
    /\ runs' = Append(runs, unwrap(RunFinder_next(input, splitter).item))
    /\ splitter' = RunFinder_next(input, splitter).iter
    /\ UNCHANGED <<input, exhausted, parsed>>
    /\ UNCHANGED <<schedVars, fileVars>>

\* the call of next() that returns None
NoMoreRuns ==
    /\ ~exhausted
    /\ RunFinder_next(input, splitter).item = None
    /\ splitter' = RunFinder_next(input, splitter).iter
    /\ exhausted' = TRUE
    /\ UNCHANGED <<input, runs, parsed>>
    /\ UNCHANGED <<schedVars, fileVars>>

\* CronJob::from_str(input)
FromStr ==
    /\ exhausted
    /\ parsed = None
    /\ parsed' = Some(from_str(input))
    /\ UNCHANGED <<input, splitter, runs, exhausted>>
    /\ UNCHANGED <<schedVars, fileVars>>

LineNext ==
    \/ NextRun
    \/ NoMoreRuns
    \/ FromStr

LineStart == SchedInit /\ LineInit /\ FileIdle

LineSpec == LineStart /\ [][LineNext]_vars

(***************************************************************************)
(* FileSpec: read_crontab (crontab.rs 111-130), one step per line.         *)
(***************************************************************************)
FileLines ==
    { <<>>,
      <<" ", U3000>>,
      <<"#", "x">>,
      <<" ", "#">>,
      <<" ", "@", "d", "a", "i", "l", "y", "\t", " ", "f", " ", "g", " ">>,
      <<"0", " ", "*", " ", "*", " ", " ", "*", " ", "*", " ", "*", " ", "f">>,
      <<"0", " ", "*", " ", "*", " ", "*", " ", "*", " ", "f">>,
      <<"@", "x", " ", "f">> }

\* the files of n lines, joined by newlines
RECURSIVE FilesOf(_)
FilesOf(n) ==
    IF n = 1 THEN FileLines
    ELSE {head \o <<"\n">> \o l : head \in FilesOf(n - 1), l \in FileLines}

Files == UNION {FilesOf(n) : n \in 1..MaxLines}

FileInit ==
    /\ file \in Files
    /\ line_idx = 0
    /\ cron_jobs = <<>>
    /\ crontab = None

\* the trimmed line the loop is at (line 115)
current_line == trim(split(file)[line_idx + 1])

\* line 122
line_no_zero_based(idx) == idx

line_no(idx) == idx + 1

\* line 117
is_skipped(str) == str = <<>> \/ starts_with(str, "#")

InLoop ==
    /\ crontab = None
    /\ line_idx < Len(split(file))

\* lines 117-119: a blank or comment line
SkipLine ==
    /\ InLoop
    /\ is_skipped(current_line)
    /\ line_idx' = line_idx + 1
    /\ UNCHANGED <<file, cron_jobs, crontab>>
    /\ UNCHANGED <<schedVars, lineVars>>

\* lines 121-126: the line parses
PushJob ==
    /\ InLoop
    /\ ~is_skipped(current_line)
    /\ from_str(current_line).kind = "Ok"
    /\ cron_jobs' = Append(cron_jobs, [schedule |-> from_str(current_line).schedule,
                                       command |-> from_str(current_line).command])
    /\ line_idx' = line_idx + 1
    /\ UNCHANGED <<file, crontab>>
    /\ UNCHANGED <<schedVars, lineVars>>

\* lines 121-124: the line does not parse; read_crontab returns the error
FailLine ==
    /\ InLoop
    /\ ~is_skipped(current_line)
    /\ from_str(current_line).kind # "Ok"
    /\ crontab' = Some(IF from_str(current_line).kind = "panic"
                       THEN [kind |-> "panic"]
                       ELSE [kind |-> "InvalidFormat",
                             line_no |-> line_no(line_idx),
                             source |-> from_str(current_line).source])
    /\ UNCHANGED <<file, line_idx, cron_jobs>>
    /\ UNCHANGED <<schedVars, lineVars>>

\* line 129
ReturnJobs ==
    /\ crontab = None
    /\ line_idx = Len(split(file))
    /\ crontab' = Some([kind |-> "Ok", jobs |-> cron_jobs])
    /\ UNCHANGED <<file, line_idx, cron_jobs>>
    /\ UNCHANGED <<schedVars, lineVars>>

FileNext ==
    \/ SkipLine
    \/ PushJob
    \/ FailLine
    \/ ReturnJobs

FileStart == SchedInit /\ LineIdle /\ FileInit

FileSpec == FileStart /\ [][FileNext]_vars

(***************************************************************************)
(* Claims about the scheduling loop and the coordinator                    *)
(***************************************************************************)
Spawned == DOMAIN jobPc

\* the ticks of one period of task j's schedule
period(j) == jobs[j].schedule * TicksPerMilli

\* a step in which task j issues its start call
IssuesStart(j) == j \in Spawned /\ jobPc[j] = "sleeping" /\ jobPc'[j] = "starting"

\* a step in which the start call of task j returns an error
StartFails(j) ==
    /\ j \in Spawned
    /\ jobPc[j] = "starting"
    /\ log'.task = j
    /\ log'.message = "Failed to start container"

\* C1: a start call is issued only when the wall clock has reached the fire
\* instant `next` the task was waiting for: no fire before its scheduled instant.
C1_NoFireBeforeNext ==
    [][\A j \in 1..MaxJobs : IssuesStart(j) => clock >= next[j]]_vars

\* C2: when signal.recv() returns, every task still running is aborted in that
\* same step, wherever it is suspended, and the process exits with success; and
\* a pending signal always leads to that exit, whatever the timers and the
\* backend calls do (they need not ever return).
C2_ShutdownAbortsAll ==
    /\ [][(mainPc = "recv" /\ mainPc' = "exited") =>
            /\ exit' = "success"
            /\ \A j \in Spawned : join_set'[j] # "running"
            /\ jobPc' = jobPc]_vars
    /\ ((mainPc = "recv" /\ signal.pending) ~> (exit = "success"))

\* C2 witness: the process exited with success having aborted one task inside
\* its await-completion call and another in the middle of its sleep.
C2_Witness ==
    /\ exit = "success"
    /\ \E j, k \in Spawned :
        /\ join_set[j] = "aborted" /\ jobPc[j] = "awaiting"
        /\ join_set[k] = "aborted" /\ jobPc[k] = "sleeping"
        /\ clock < unwrap(wake[k])

C4_NoTaskOnStartupFailure ==
    /\ mainPc \in {"main", "ping"} => Spawned = {}
    /\ exit = "failure" => Spawned = {}
    /\ log.message \in StartupFailures \cup {"Ping", "Signal"} =>
            mainPc = "exited" /\ exit = "failure"

\* C4 witness: the crontab was loaded with jobs in it and the process then
\* ended with failure status (the connectivity check failed).
C4_Witness ==
    /\ exit = "failure"
    /\ Len(jobs) > 0
    /\ log = Record(0, "Ping")

(***************************************************************************)
(* Claims about the crontab parser.  Whitespace runs, physical lines and   *)
(* job lines are characterised here by position, independently of the      *)
(* scanning and splitting code above.                                      *)
(***************************************************************************)
Min(S) == CHOOSE x \in S : \A y \in S : x <= y
Max(S) == CHOOSE x \in S : \A y \in S : x >= y

Before(S, x) == Cardinality({y \in S : y < x})

\* the character positions at which a maximal whitespace run begins
RunStarts(str) ==
    {i \in 1..Len(str) :
        is_whitespace(str[i]) /\ (i = 1 \/ ~is_whitespace(str[i - 1]))}

\* the last character of the maximal whitespace run that begins at a
RunLast(str, a) ==
    CHOOSE b \in a..Len(str) :
        /\ \A i \in a..b : is_whitespace(str[i])
        /\ b = Len(str) \/ ~is_whitespace(str[b + 1])

\* where the k-th maximal whitespace run (k = 1, 2, ...) begins
KthRunStart(str, k) == CHOOSE a \in RunStarts(str) : Before(RunStarts(str), a) = k - 1

\* the k-th maximal whitespace run as a half-open pair of byte offsets
KthRun(str, k) ==
    <<offset(str, KthRunStart(str, k)),
      offset(str, RunLast(str, KthRunStart(str, k)) + 1)>>

TextBeforeRun(str, k) == SubSeq(str, 1, KthRunStart(str, k) - 1)
TextAfterRun(str, k) == SubSeq(str, RunLast(str, KthRunStart(str, k)) + 1, Len(str))

\* the 1-based physical lines of a file: what lies between two newlines
Newlines(f) == {i \in 1..Len(f) : f[i] = "\n"}
NewlineAt(f, n) ==
    IF n = 0 THEN 0
    ELSE IF n > Cardinality(Newlines(f)) THEN Len(f) + 1
    ELSE CHOOSE p \in Newlines(f) : Before(Newlines(f), p) = n - 1
PhysicalLines(f) == 1..(Cardinality(Newlines(f)) + 1)
PhysicalLine(f, n) == SubSeq(f, NewlineAt(f, n - 1) + 1, NewlineAt(f, n) - 1)

Inked(str) == {i \in 1..Len(str) : ~is_whitespace(str[i])}
Content(str) == IF Inked(str) = {} THEN <<>> ELSE SubSeq(str, Min(Inked(str)), Max(Inked(str)))
IsJobLine(str) == Inked(str) # {} /\ str[Min(Inked(str))] # "#"
JobLineNumbers(f) == {n \in PhysicalLines(f) : IsJobLine(PhysicalLine(f, n))}
FailingLineNumbers(f) ==
    {n \in JobLineNumbers(f) : from_str(Content(PhysicalLine(f, n))).kind # "Ok"}

\* C5: when some job line fails to parse, read_crontab never goes past the
\* first such line, and returns an error (no jobs) whose line number is that
\* line's 1-based physical number, blank and comment lines counted.
C5_FirstErrorLineNumber ==
    FailingLineNumbers(file) # {} =>
        /\ line_idx + 1 <= Min(FailingLineNumbers(file))
        /\ crontab # None =>
            /\ unwrap(crontab).kind = "InvalidFormat"
            /\ unwrap(crontab).line_no = Min(FailingLineNumbers(file))
            /\ line_idx + 1 = unwrap(crontab).line_no
            /\ "jobs" \notin DOMAIN unwrap(crontab)

\* C5 witness: the error is reported for physical line 2, after a skipped
\* first line, and the job line on line 3 is left unread.
C5_Witness ==
    /\ crontab # None
    /\ unwrap(crontab).kind = "InvalidFormat"
    /\ unwrap(crontab).line_no = 2
    /\ ~IsJobLine(PhysicalLine(file, 1))
    /\ Cardinality(PhysicalLines(file)) = 3
    /\ IsJobLine(PhysicalLine(file, 3))

\* C6: when every job line of the file parses, read_crontab returns Ok with
\* exactly one CronJob per line that is neither blank nor a comment after
\* trimming, in file order.
C6_OneJobPerJobLine ==
    (crontab # None /\ FailingLineNumbers(file) = {}) =>
        /\ unwrap(crontab).kind = "Ok"
        /\ Len(unwrap(crontab).jobs) = Cardinality(JobLineNumbers(file))
        /\ \A n \in JobLineNumbers(file) :
            LET job == unwrap(crontab).jobs[Before(JobLineNumbers(file), n) + 1]
                expected == from_str(Content(PhysicalLine(file, n)))
            IN  job.schedule = expected.schedule /\ job.command = expected.command

\* C6 witness: a file of three lines, one of them blank or a comment, loaded
\* into two jobs.
C6_Witness ==
    /\ crontab # None
    /\ unwrap(crontab).kind = "Ok"
    /\ Len(unwrap(crontab).jobs) = 2
    /\ Cardinality(PhysicalLines(file)) = 3
    /\ \E n \in PhysicalLines(file) : Inked(PhysicalLine(file, n)) # {} /\ ~IsJobLine(PhysicalLine(file, n))

\* C7: for a line that does not start with @ and has at least six whitespace
\* runs, from_str hands the evaluator exactly the text before the 6th run and,
\* when the evaluator accepts it, returns as command exactly the text after it.
C7_SplitAtSixthRun ==
    (parsed # None /\ ~starts_with(input, "@") /\ Cardinality(RunStarts(input)) >= 6) =>
        /\ unwrap(parsed).kind \in {"Ok", "Err"}
        /\ unwrap(parsed).evaluated = Some(TextBeforeRun(input, 6))
        /\ unwrap(parsed).kind = "Ok" => unwrap(parsed).command = TextAfterRun(input, 6)

\* C8: for a line that starts with @ and has a whitespace run, from_str hands
\* the evaluator exactly the text before the 1st run and, when the evaluator
\* accepts it, returns as command exactly the text after it, unchanged.
C8_SplitAtFirstRun ==
    (parsed # None /\ starts_with(input, "@") /\ RunStarts(input) # {}) =>
        /\ unwrap(parsed).kind \in {"Ok", "Err"}
        /\ unwrap(parsed).evaluated = Some(TextBeforeRun(input, 1))
        /\ unwrap(parsed).kind = "Ok" => unwrap(parsed).command = TextAfterRun(input, 1)

TooFewRuns(str) ==
    IF starts_with(str, "@") THEN RunStarts(str) = {} ELSE Cardinality(RunStarts(str)) <= 5

\* C9: a line with fewer whitespace runs than its form requires makes
\* from_str return a format error without a cause: no panic, no job, and the
\* evaluator is handed nothing.
C9_TooFewRunsIsFormatError ==
    (parsed # None /\ TooFewRuns(input)) =>
        /\ unwrap(parsed).kind = "Err"
        /\ unwrap(parsed).source = None
        /\ unwrap(parsed).evaluated = None

\* C9 witness: a line of six fields and exactly five whitespace runs was
\* rejected.
C9_Witness ==
    /\ parsed # None
    /\ ~starts_with(input, "@")
    /\ Cardinality(RunStarts(input)) = 5
    /\ Cardinality(Inked(input)) = 6
    /\ unwrap(parsed).kind = "Err"

\* C10: find_whitespace_runs yields, in order, exactly the maximal whitespace
\* runs of the line as half-open pairs of offsets, and nothing else.
C10_YieldsMaximalRuns ==
    /\ Len(runs) <= Cardinality(RunStarts(input))
    /\ \A k \in 1..Len(runs) : runs[k] = KthRun(input, k)
    /\ exhausted => Len(runs) = Cardinality(RunStarts(input))

\* C11: when the line ends in whitespace, whatever the width of its last
\* characters, the last pair yielded has `end` equal to the line's length, so
\* the slice from `end` is valid and empty.
C11_TrailingRunEndsAtLength ==
    (exhausted /\ input # <<>> /\ is_whitespace(input[Len(input)])) =>
        /\ runs # <<>>
        /\ runs[Len(runs)][2] = len(input)
        /\ ~slice_panics(input, runs[Len(runs)][2], len(input))
        /\ slice(input, runs[Len(runs)][2], len(input)) = <<>>

(***************************************************************************)
(* Claims about the job loop and the coordinator                           *)
(***************************************************************************)
\* a step in which the await-completion call of task j returns
WaitReturns(j) ==
    /\ j \in Spawned
    /\ jobPc[j] = "awaiting"
    /\ reply' # None
    /\ unwrap(reply').task = j

\* the five reports of an await-completion outcome
WaitReports ==
    {"No response to poll request on Docker API", "Successful exit",
     "Job did not succeed", "Container wait request returned error message",
     "Error waiting for container completion"}

\* C12 as stated: after a failed start and after each of the five
\* await-completion outcomes the task is alive, asleep again and has a new fire
\* instant; and a task only ever stops running by being aborted at shutdown.
C12_LoopEndsOnlyByCancellation ==
    /\ [][\A j \in 1..MaxJobs : (StartFails(j) \/ WaitReturns(j)) =>
            /\ join_set'[j] = "running"
            /\ jobPc'[j] = "sleeping"
            /\ next'[j] > clock]_vars
    /\ [](\A j \in Spawned : join_set[j] \in {"running", "aborted"})

\* C12 amended: after a failed start and after each of the five
\* await-completion outcomes the task is alive, asleep again and has a new fire
\* instant; a task stops running only by being aborted at shutdown, or by the
\* panic of the unwrap when its schedule has no occurrence to come, which
\* happens at its first computation of a fire instant, before any start call.
C12_OutcomesKeepLooping ==
    /\ [][\A j \in 1..MaxJobs : (StartFails(j) \/ WaitReturns(j)) =>
            /\ log'.task = j
            /\ log'.message \in WaitReports \cup {"Failed to start container"}
            /\ join_set'[j] = "running"
            /\ jobPc'[j] = "sleeping"
            /\ wake'[j] # None
            /\ next'[j] > clock]_vars
    /\ [](\A j \in Spawned :
            \/ join_set[j] = "running"
            \/ join_set[j] = "aborted" /\ mainPc = "exited"
            \/ /\ join_set[j] = "panicked"
               /\ jobs[j].schedule = 0
               /\ jobPc[j] = "spawned")

\* C12 witness: the await-completion call of a task has just returned no
\* result at all, and the task sleeps again for a later fire instant, next to
\* a task that died at its first computation.
C12_Witness ==
    \E j, k \in Spawned :
        /\ log.task = j
        /\ log.message = "No response to poll request on Docker API"
        /\ join_set[j] = "running" /\ jobPc[j] = "sleeping"
        /\ next[j] > unwrap(reply).fire
        /\ join_set[k] = "panicked"

\* C13: when the start call fails the task issues no await-completion call for
\* that fire: it goes straight back to sleep, for the first occurrence after
\* the instant at which the failure returned (not after the instant that
\* failed); a start call is only ever issued out of a sleep, and an
\* await-completion call only when a start call has returned Ok.
C13_FailedStartSkipsAwait ==
    [][\A j \in 1..MaxJobs :
        /\ StartFails(j) =>
            /\ jobPc'[j] = "sleeping"
            /\ wake'[j] # None
            /\ unwrap(wake'[j]) >= clock
            /\ next'[j] = (clock \div period(j) + 1) * period(j)
        /\ (j \in Spawned /\ jobPc'[j] = "starting" /\ jobPc[j] # "starting") =>
            jobPc[j] = "sleeping"
        /\ (j \in Spawned /\ jobPc'[j] = "awaiting" /\ jobPc[j] # "awaiting") =>
            /\ jobPc[j] = "starting"
            /\ unwrap(reply') = [task |-> j, call |-> "start",
                                 result |-> [kind |-> "Ok"], fire |-> next[j]]]_vars

\* C13 witness: a start call failed after more than one period had elapsed
\* since the instant it was made for, and the task sleeps for the occurrence
\* after the failure, which is not the occurrence after the failed one.
C13_Witness ==
    \E j \in Spawned :
        /\ log.task = j
        /\ log.message = "Failed to start container"
        /\ unwrap(reply).result.kind = "Err"
        /\ jobPc[j] = "sleeping"
        /\ next[j] > unwrap(reply).fire + period(j)

\* C14: a task has at most one call outstanding: while its start or
\* await-completion call has not returned, the task computes no fire instant,
\* starts no sleep and issues no start call; it only moves on by the return of
\* that call (or by being aborted); and there is exactly one task per CronJob
\* of the loaded crontab.
C14_OneFireOutstanding ==
    /\ [][\A j \in 1..MaxJobs :
            (/\ j \in Spawned
             /\ jobPc[j] \in {"starting", "awaiting"}
             /\ <<jobPc'[j], next'[j], wake'[j]>> # <<jobPc[j], next[j], wake[j]>>) =>
                /\ reply' # None
                /\ unwrap(reply').task = j
                /\ unwrap(reply').fire = next[j]
                /\ unwrap(reply').call = (IF jobPc[j] = "starting" THEN "start" ELSE "wait")
                /\ \/ jobPc'[j] = "sleeping" /\ log'.task = j
                   \/ /\ jobPc[j] = "starting" /\ jobPc'[j] = "awaiting"
                      /\ next'[j] = next[j] /\ wake'[j] = None]_vars
    /\ [](/\ mainPc = "recv" => Spawned = 1..Len(jobs)
          /\ DOMAIN join_set = Spawned
          /\ \A j \in Spawned : jobPc[j] \in {"starting", "awaiting"} => wake[j] = None)

\* C14 witness: with two jobs loaded, both tasks have a call outstanding at
\* once, each its own, one a start call and one an await-completion call.
C14_Witness ==
    /\ Len(jobs) = 2
    /\ Spawned = {1, 2}
    /\ join_set[1] = "running" /\ jobPc[1] = "starting"
    /\ join_set[2] = "running" /\ jobPc[2] = "awaiting"
    /\ reply # None
    /\ unwrap(reply).task = 2

\* C15: once the coordinator has received the termination signal no task
\* takes another step, so no start or await-completion call is issued: the
\* step that receives the signal is also the one in which the coordinator
\* returns, no task runs in it, and it leaves no task running.
C15_NoCallAfterSignal ==
    /\ [][(mainPc = "recv" /\ exit' = "success") =>
            /\ signal.pending
            /\ mainPc' = "exited"
            /\ reply' = None
            /\ <<jobPc', next', wake'>> = <<jobPc, next, wake>>
            /\ \A j \in Spawned : join_set'[j] # "running"]_vars
    /\ [][exit = "success" =>
            /\ reply' = None
            /\ <<join_set', jobPc', next', wake'>> = <<join_set, jobPc, next, wake>>]_vars
    /\ [](exit = "success" =>
            /\ mainPc = "exited"
            /\ \A j \in Spawned : join_set[j] # "running")

\* C15 witness: the signal was received when the sleep of one task had
\* already elapsed and the start call of another had not yet returned; the
\* first never issued its start call, the second no await-completion call.
C15_Witness ==
    /\ exit = "success"
    /\ \E j, k \in Spawned :
        /\ join_set[j] = "aborted" /\ jobPc[j] = "sleeping"
        /\ clock >= unwrap(wake[j])
        /\ join_set[k] = "aborted" /\ jobPc[k] = "starting"

\* a step of the loop of task j: it moves, or dies, or receives a reply
JobStep(j) ==
    /\ j \in Spawned
    /\ join_set[j] = "running"
    /\ \/ <<jobPc'[j], next'[j], wake'[j]>> # <<jobPc[j], next[j], wake[j]>>
       \/ join_set'[j] = "panicked"
       \/ reply' # None /\ unwrap(reply').task = j

\* C16: a step of one task's loop (computing a fire instant, going to sleep,
\* waking up, a start call succeeding or failing, any await-completion
\* outcome, or the loop dying) changes nothing of any other task and nothing
\* of the coordinator; the process does not end by it: once the tasks are
\* spawned the process ends only by receiving the termination signal.
C16_JobStepsAreLocal ==
    /\ [][\A j \in 1..MaxJobs : JobStep(j) =>
            /\ \A k \in Spawned \ {j} :
                <<join_set'[k], jobPc'[k], next'[k], wake'[k]>>
                    = <<join_set[k], jobPc[k], next[k], wake[k]>>
            /\ <<mainPc', exit', jobs', signal'>> = <<mainPc, exit, jobs, signal>>
            /\ exit' = "none"]_vars
    /\ [][(mainPc = "recv" /\ mainPc' # "recv") =>
            /\ signal.pending
            /\ log' = Record(0, "Stopping due to SIGTERM")
            /\ exit' = "success"]_vars

\* C16 witness: one task died at its first computation of a fire instant, and
\* the other has since had an await-completion call return and sleeps again,
\* the coordinator still waiting for the signal.
C16_Witness ==
    /\ mainPc = "recv" /\ exit = "none"
    /\ \E j, k \in Spawned :
        /\ join_set[j] = "panicked"
        /\ join_set[k] = "running" /\ jobPc[k] = "sleeping"
        /\ reply # None
        /\ unwrap(reply).task = k
        /\ unwrap(reply).call = "wait"

\* the report the five classes prescribe for an await-completion result
ExpectedReport(j, r) ==
    IF r.kind = "None"
    THEN Record(j, "No response to poll request on Docker API")
    ELSE IF r.kind = "Ok"
    THEN Record(j, "Successful exit")
    ELSE IF r.kind = "DockerContainerWaitError" /\ r.error # ""
    THEN RecordWith(j, "Container wait request returned error message", "error_msg", r.error)
    ELSE IF r.kind = "DockerContainerWaitError" /\ r.error = ""
    THEN RecordWith(j, "Job did not succeed", "status_code", r.code)
    ELSE RecordWith(j, "Error waiting for container completion", "error", r.kind)

\* C17: the result of the await-completion call is reported as exactly one of
\* five classes: no result gives 'no response'; Ok gives success; a wait error
\* with a non-empty message gives the message and not the status code; a wait
\* error with an empty message gives the status code; any other error gives the
\* opaque error; the five reports are distinct and nothing else is written.
C17_FiveOutcomeClasses ==
    /\ [][\A j \in 1..MaxJobs : WaitReturns(j) =>
            /\ unwrap(reply').call = "wait"
            /\ log' = ExpectedReport(j, unwrap(reply').result)
            /\ log'.message \in WaitReports]_vars
    /\ [](Cardinality(WaitReports) = 5)

\* C17 witness: a wait error carrying both a message and a status code has
\* been reported by its message.
C17_Witness ==
    /\ reply # None
    /\ unwrap(reply).call = "wait"
    /\ unwrap(reply).result.kind = "DockerContainerWaitError"
    /\ unwrap(reply).result.error = "msg"
    /\ unwrap(reply).result.code = 1
    /\ log.message = "Container wait request returned error message"
    /\ unwrap(log.field).name = "error_msg"
    /\ unwrap(log.field).value = "msg"

\* C18: a task issues at most one start call per scheduled occurrence: the
\* start call it issues is never for the fire instant of the call that has
\* just returned to it, however quickly that call returned.
C18_OneStartPerOccurrence ==
    [][\A j \in 1..MaxJobs : IssuesStart(j) =>
            ~(/\ reply # None
              /\ unwrap(reply).task = j
              /\ unwrap(reply).fire = next[j])]_vars

\* C19: every fire instant is strictly later than the clock at which it was
\* computed, so the sleep is never negative (and never goes past the fire
\* instant); it is the first occurrence after that clock, so every occurrence
\* that elapsed while the call was outstanding is skipped, and one sleep, not
\* a series of start calls, follows the return of the call.
C19_NextIsAfterNow ==
    /\ [][\A j \in 1..MaxJobs :
            (j \in Spawned /\ jobPc[j] # "sleeping" /\ jobPc'[j] = "sleeping") =>
                /\ clock' = clock
                /\ next'[j] > clock
                /\ next'[j] - period(j) <= clock
                /\ next'[j] % period(j) = 0
                /\ unwrap(wake'[j]) >= clock
                /\ unwrap(wake'[j]) <= next'[j]]_vars
    /\ [](\A j \in Spawned : jobPc[j] = "sleeping" =>
            /\ wake[j] # None
            /\ unwrap(wake[j]) <= next[j]
            /\ next[j] - unwrap(wake[j]) < TicksPerMilli)

\* C19 witness: an await-completion call returned after a later occurrence of
\* the schedule had elapsed, and the task sleeps for an occurrence still to
\* come, two periods or more after the one it had fired for.
C19_Witness ==
    \E j \in Spawned :
        /\ reply # None
        /\ unwrap(reply).task = j
        /\ unwrap(reply).call = "wait"
        /\ jobPc[j] = "sleeping"
        /\ next[j] >= unwrap(reply).fire + 2 * period(j)
        /\ next[j] > clock

\* C20: every CronJob read_crontab collects or returns has a command that is
\* not empty and neither begins nor ends with a whitespace character.
C20_CommandIsTrimmed ==
    \A i \in 1..Len(cron_jobs) :
        /\ cron_jobs[i].command # <<>>
        /\ ~is_whitespace(Head(cron_jobs[i].command))
        /\ ~is_whitespace(cron_jobs[i].command[Len(cron_jobs[i].command)])

\* C20 witness: read_crontab returned a job whose command has whitespace
\* inside, read from a line with whitespace before the schedule and after the
\* command.
C20_Witness ==
    /\ crontab # None
    /\ unwrap(crontab).kind = "Ok"
    /\ \E i \in 1..Len(unwrap(crontab).jobs) :
        /\ unwrap(crontab).jobs[i].command = <<"f", " ", "g">>
        /\ \E n \in PhysicalLines(file) :
            /\ is_whitespace(Head(PhysicalLine(file, n)))
            /\ is_whitespace(PhysicalLine(file, n)[Len(PhysicalLine(file, n))])
            /\ Before(JobLineNumbers(file), n) + 1 = i

====
